---- MODULE Spec2Model ----
(***************************************************************************)
(* Session-and-view controller of the task manager front end               *)
(* (src/frontend/app.js).                                                  *)
(*                                                                         *)
(* The script is single threaded: a handler runs without interruption up   *)
(* to its next `await`, so every action below is one such uninterrupted    *)
(* run: a click up to its fetch, the continuation after `await fetch`, the *)
(* continuation after `await response.json()`.  Requests in flight are     *)
(* kept in issue order in `net`; the services answer them in any order.    *)
(***************************************************************************)
EXTENDS Naturals, Sequences, FiniteSets

VARIABLES
    loaded,       \* the script has run to its end (lines 1-129)
    token,        \* `let token` (line 18), a JavaScript value
    storage,      \* localStorage entry 'token': what getItem('token') returns
    authHidden,   \* authSection.classList contains 'hidden'
    tasksHidden,  \* tasksSection.classList contains 'hidden'
    authMsg,      \* authMsg.textContent
    taskTitle,    \* value of the #task-title input, a sequence of characters
    tasksList,    \* text of the <li> children of #tasks-list, in order
    net,          \* fetches in flight, in issue order
    serverTasks,  \* the task list held by the Tasks service
    started,      \* number of fetches the user has started: by a click, or by
                  \* loading the page with a stored token
    rendered,     \* history: the request whose response loadTasks rendered last
    ev            \* history: the handler of the script that ran last, with
                  \* the branch it took where the properties tell them apart

vars == <<loaded, token, storage, authHidden, tasksHidden, authMsg, taskTitle,
          tasksList, net, serverTasks, started, rendered, ev>>

(***************************************************************************)
(* Bounds                                                                  *)
(***************************************************************************)
MaxStarted == 2       \* fetches the user starts over the life of the page

(***************************************************************************)
(* JavaScript values of the token: null, undefined or a string             *)
(***************************************************************************)
JSNull == [t |-> "null", s |-> ""]
JSUndefined == [t |-> "undefined", s |-> ""]
Str(x) == [t |-> "string", s |-> x]

\* `!token` is false exactly for a non-empty string
Truthy(v) == v.t = "string" /\ v.s # ""

\* String(v), as applied by localStorage.setItem and by template literals
ToString(v) == IF v.t = "string" THEN v.s ELSE v.t

TokenStrings == {"tok1", "tok2"}

(***************************************************************************)
(* Text                                                                    *)
(***************************************************************************)
\* the suffix ' (Terminée)' of line 95
DoneMarker == <<" ", "(", "T", ")">>

\* values the user can type into #task-title
Titles == {<<>>, <<" ">>, <<"a">>}

\* the messages written to authMsg.textContent
MsgNone == ""
MsgRegistered == "Inscription reussie ! Connectez-vous."
MsgDetail == "Erreur: detail"
MsgNetwork == "Erreur reseau."
MsgLoginFailed == "Echec de la connexion."

(***************************************************************************)
(* Requests and responses                                                  *)
(***************************************************************************)
\* a response body: text that is not JSON, or a JSON value
\*   k = "none"    no body read
\*   k = "notjson" response.json() rejects
\*   k = "object"  a JSON object; tok is its access_token field
\*                 (JSUndefined when the field is missing)
\*   k = "array"   a JSON array; items are its elements
Body(k, tok, items) == [k |-> k, tok |-> tok, items |-> items]
NoBody == Body("none", JSUndefined, <<>>)
NotJson == Body("notjson", JSUndefined, <<>>)
ObjectBody(tok) == Body("object", tok, <<>>)
ArrayBody(items) == Body("array", JSUndefined, items)

\* an array element: a task object, or null
Task(title, completed) == [nul |-> FALSE, title |-> title, completed |-> completed]
NullElement == [nul |-> TRUE, title |-> <<>>, completed |-> FALSE]

\* a fetch in flight
\*   phase "sent"     issued
\*   phase "served"   the Tasks service has processed it within its contract
\*                    (body: the list it answers a GET with); not delivered
\*   phase "parsing"  the handler awaits response.json() (body: the body read)
Request(kind, bearer, title) ==
    [kind |-> kind, bearer |-> bearer, title |-> title,
     phase |-> "sent", body |-> NoBody]

NoRequest == [kind |-> "none", bearer |-> "", title |-> <<>>,
              phase |-> "none", body |-> NoBody]


RemoveAt(s, i) == SubSeq(s, 1, i - 1) \o SubSeq(s, i + 1, Len(s))

ReplaceAt(s, i, r) == [s EXCEPT ![i] = r]

(***************************************************************************)
(* The external services (spec section 6).  What a fetch settles with is   *)
(* an input of the handler step that continues after it: a status, then a  *)
(* body.  Status 0 stands for a fetch() that rejects (network failure).    *)
(* The Tasks service keeps one list; processing a request within its       *)
(* contract is a step of its own, since it reads or changes that list      *)
(* before the response is delivered.  Any request may instead end in a     *)
(* failure or an answer outside the contract.                              *)
(***************************************************************************)
InitialServerTasks == <<Task(<<"a">>, TRUE)>>

\* token entries a previous life of the page can have left in localStorage
StoredAtLoad == {JSNull, Str(""), Str("tok1")}

RegisterStatuses == {0, 201, 400}
RegisterBodies == {ObjectBody(JSUndefined), NotJson}

LoginStatuses == {0, 200, 401}
GoodLoginBodies == {ObjectBody(Str(tk)) : tk \in TokenStrings}
LoginBodies ==
    GoodLoginBodies \cup {ObjectBody(Str("")), ObjectBody(JSUndefined), NotJson}

\* answers to a GET of the list other than 200 with the service's list
OtherListAnswers ==
    {<<0, NoBody>>,
     <<401, ObjectBody(JSUndefined)>>,
     <<500, ObjectBody(JSUndefined)>>,
     <<200, NotJson>>,
     <<200, ArrayBody(<<Task(<<"a">>, TRUE), NullElement>>)>>}

\* what the GET of req can settle with
ListAnswers(req) ==
    (IF req.phase = "served" THEN {<<200, req.body>>} ELSE {}) \cup OtherListAnswers

CreateRefusals == {0, 401, 500}

\* what the POST of req can settle with
CreateStatuses(req) ==
    (IF req.phase = "served" THEN {201} ELSE {}) \cup CreateRefusals

\* the Tasks service processes GET i: it will answer 200 with its list
ServeList(i) ==
    /\ i \in 1..Len(net)
    /\ net[i].kind = "list"
    /\ net[i].phase = "sent"
    /\ net' = ReplaceAt(net, i, [net[i] EXCEPT !.phase = "served",
                                               !.body = ArrayBody(serverTasks)])
    /\ UNCHANGED <<loaded, token, storage, authHidden, tasksHidden, authMsg,
                   taskTitle, tasksList, serverTasks, started, rendered, ev>>

\* the Tasks service processes POST i: it stores the task and will answer 201
ServeCreate(i) ==
    /\ i \in 1..Len(net)
    /\ net[i].kind = "create"
    /\ net[i].phase = "sent"
    /\ serverTasks' = Append(serverTasks, Task(net[i].title, FALSE))
    /\ net' = ReplaceAt(net, i, [net[i] EXCEPT !.phase = "served"])
    /\ UNCHANGED <<loaded, token, storage, authHidden, tasksHidden, authMsg,
                   taskTitle, tasksList, started, rendered, ev>>

(***************************************************************************)
(* Display logic (lines 21-32) and loadTasks up to its fetch (83-88)       *)
(***************************************************************************)
\* showAuth() without line 24
ShowAuthKeepsToken ==
    /\ authHidden' = FALSE
    /\ tasksHidden' = TRUE
    /\ UNCHANGED token
    /\ storage' = JSNull

\* showAuth() without line 25
ShowAuthKeepsStorage ==
    /\ authHidden' = FALSE
    /\ tasksHidden' = TRUE
    /\ token' = JSNull
    /\ UNCHANGED storage

\* showAuth()
ShowAuth ==
    /\ authHidden' = FALSE
    /\ tasksHidden' = TRUE
    /\ token' = JSNull
    /\ storage' = JSNull

\* loadTasks() up to `await fetch` without the test of line 84
LoadTasksNoGuard(tok, base) ==
    Append(base, Request("list", ToString(tok), <<>>))

\* loadTasks() up to `await fetch`: the requests in flight after it is called
\* with token value tok while `base` are in flight
LoadTasks(tok, base) ==
    IF ~Truthy(tok) THEN base
    ELSE Append(base, Request("list", ToString(tok), <<>>))

\* showTasks() without line 29
ShowTasksKeepsAuth(tok, base) ==
    /\ UNCHANGED authHidden
    /\ tasksHidden' = FALSE
    /\ net' = LoadTasks(tok, base)

\* showTasks()
ShowTasks(tok, base) ==
    /\ authHidden' = TRUE
    /\ tasksHidden' = FALSE
    /\ net' = LoadTasks(tok, base)

\* line 18 and lines 125-126 without the else branch of lines 127-129
PageLoadNoShowAuth ==
    /\ ~loaded
    /\ loaded' = TRUE
    /\ token' = storage
    /\ IF Truthy(storage)
       THEN /\ ShowTasks(storage, net)
            /\ started' = started + 1
       ELSE UNCHANGED <<authHidden, tasksHidden, net, started>>
    /\ ev' = "PageLoad"
    /\ UNCHANGED <<storage, authMsg, taskTitle, tasksList, serverTasks, rendered>>

\* the script's top level: line 18 and lines 125-129
PageLoad ==
    /\ ~loaded
    /\ loaded' = TRUE
    /\ IF Truthy(storage)
       THEN /\ token' = storage
            /\ ShowTasks(storage, net)
            /\ started' = started + 1
            /\ UNCHANGED storage
       ELSE /\ ShowAuth
            /\ UNCHANGED <<net, started>>
    /\ ev' = "PageLoad"
    /\ UNCHANGED <<authMsg, taskTitle, tasksList, serverTasks, rendered>>

\* the user edits the #task-title input
TypeTitle(t) ==
    /\ loaded
    /\ t # taskTitle
    /\ taskTitle' = t
    /\ UNCHANGED <<loaded, token, storage, authHidden, tasksHidden, authMsg,
                   tasksList, net, serverTasks, started, rendered, ev>>

(***************************************************************************)
(* Authentication (lines 35-80)                                            *)
(***************************************************************************)
\* registerBtn.onclick up to `await fetch` (lines 35-43)
RegisterClick ==
    /\ loaded
    /\ started < MaxStarted
    /\ started' = started + 1
    /\ net' = Append(net, Request("register", "", <<>>))
    /\ ev' = "RegisterClick"
    /\ UNCHANGED <<loaded, token, storage, authHidden, tasksHidden, authMsg,
                   taskTitle, tasksList, serverTasks, rendered>>

\* lines 44-50 with a login sent as soon as the registration succeeds
RegisterResponseLogsIn(i, status) ==
    /\ i \in 1..Len(net)
    /\ net[i].kind = "register"
    /\ net[i].phase = "sent"
    /\ IF status = 0
       THEN /\ authMsg' = MsgNetwork
            /\ net' = RemoveAt(net, i)
       ELSE IF status = 201
       THEN /\ authMsg' = MsgRegistered
            /\ net' = Append(RemoveAt(net, i), Request("login", "", <<>>))
       ELSE /\ net' = ReplaceAt(net, i, [net[i] EXCEPT !.phase = "parsing"])
            /\ UNCHANGED authMsg
    /\ ev' = "RegisterResponse"
    /\ UNCHANGED <<loaded, token, storage, authHidden, tasksHidden,
                   taskTitle, tasksList, serverTasks, started, rendered>>

\* registerBtn.onclick after `await fetch` settles with status (lines 44-50)
RegisterResponse(i, status) ==
    /\ i \in 1..Len(net)
    /\ net[i].kind = "register"
    /\ net[i].phase = "sent"
    /\ IF status = 0
       THEN /\ authMsg' = MsgNetwork
            /\ net' = RemoveAt(net, i)
       ELSE IF status = 201
       THEN /\ authMsg' = MsgRegistered
            /\ net' = RemoveAt(net, i)
       ELSE /\ net' = ReplaceAt(net, i, [net[i] EXCEPT !.phase = "parsing"])
            /\ UNCHANGED authMsg
    /\ ev' = "RegisterResponse"
    /\ UNCHANGED <<loaded, token, storage, authHidden, tasksHidden,
                   taskTitle, tasksList, serverTasks, started, rendered>>

\* registerBtn.onclick after `await response.json()` settles (lines 47-50)
RegisterBody(i, body) ==
    /\ i \in 1..Len(net)
    /\ net[i].kind = "register"
    /\ net[i].phase = "parsing"
    /\ authMsg' = IF body.k = "notjson" THEN MsgNetwork ELSE MsgDetail
    /\ net' = RemoveAt(net, i)
    /\ ev' = "RegisterBody"
    /\ UNCHANGED <<loaded, token, storage, authHidden, tasksHidden,
                   taskTitle, tasksList, serverTasks, started, rendered>>

\* loginBtn.onclick up to `await fetch` (lines 53-68)
LoginClick ==
    /\ loaded
    /\ started < MaxStarted
    /\ started' = started + 1
    /\ authMsg' = MsgNone
    /\ net' = Append(net, Request("login", "", <<>>))
    /\ ev' = "LoginClick"
    /\ UNCHANGED <<loaded, token, storage, authHidden, tasksHidden,
                   taskTitle, tasksList, serverTasks, rendered>>

\* response.ok
Ok(status) == status >= 200 /\ status <= 299

\* lines 69-77 with the login sent again after a refusal
LoginResponseRetries(i, status) ==
    /\ i \in 1..Len(net)
    /\ net[i].kind = "login"
    /\ net[i].phase = "sent"
    /\ IF status = 0
       THEN /\ authMsg' = MsgNetwork
            /\ net' = RemoveAt(net, i)
       ELSE IF Ok(status)
       THEN /\ net' = ReplaceAt(net, i, [net[i] EXCEPT !.phase = "parsing"])
            /\ UNCHANGED authMsg
       ELSE /\ authMsg' = MsgLoginFailed
            /\ net' = Append(RemoveAt(net, i), Request("login", "", <<>>))
    /\ ev' = "LoginResponse"
    /\ UNCHANGED <<loaded, token, storage, authHidden, tasksHidden,
                   taskTitle, tasksList, serverTasks, started, rendered>>

\* lines 69-77 with showTasks() called as soon as the response is ok
LoginResponseShowsTasks(i, status) ==
    /\ i \in 1..Len(net)
    /\ net[i].kind = "login"
    /\ net[i].phase = "sent"
    /\ IF status = 0
       THEN /\ authMsg' = MsgNetwork
            /\ net' = RemoveAt(net, i)
            /\ UNCHANGED <<authHidden, tasksHidden>>
       ELSE IF status >= 200 /\ status <= 299
       THEN /\ ShowTasks(token, ReplaceAt(net, i, [net[i] EXCEPT !.phase = "parsing"]))
            /\ UNCHANGED authMsg
       ELSE /\ authMsg' = MsgLoginFailed
            /\ net' = RemoveAt(net, i)
            /\ UNCHANGED <<authHidden, tasksHidden>>
    /\ ev' = "LoginResponse"
    /\ UNCHANGED <<loaded, token, storage, taskTitle, tasksList, serverTasks,
                   started, rendered>>

\* loginBtn.onclick after `await fetch` settles with status (lines 69-77)
LoginResponse(i, status) ==
    /\ i \in 1..Len(net)
    /\ net[i].kind = "login"
    /\ net[i].phase = "sent"
    /\ IF status = 0
       THEN /\ authMsg' = MsgNetwork
            /\ net' = RemoveAt(net, i)
       ELSE IF Ok(status)
       THEN /\ net' = ReplaceAt(net, i, [net[i] EXCEPT !.phase = "parsing"])
            /\ UNCHANGED authMsg
       ELSE /\ authMsg' = MsgLoginFailed
            /\ net' = RemoveAt(net, i)
    /\ ev' = "LoginResponse"
    /\ UNCHANGED <<loaded, token, storage, authHidden, tasksHidden,
                   taskTitle, tasksList, serverTasks, started, rendered>>

\* lines 70-73 without line 72
LoginBodyNoPersist(i, body) ==
    /\ i \in 1..Len(net)
    /\ net[i].kind = "login"
    /\ net[i].phase = "parsing"
    /\ IF body.k = "notjson"
       THEN /\ authMsg' = MsgNetwork
            /\ net' = RemoveAt(net, i)
            /\ UNCHANGED <<token, authHidden, tasksHidden>>
       ELSE /\ token' = body.tok
            /\ ShowTasks(token', RemoveAt(net, i))
            /\ UNCHANGED authMsg
    /\ ev' = IF body.k = "notjson" THEN "LoginBodyThrow" ELSE "LoginBody"
    /\ UNCHANGED <<loaded, storage, taskTitle, tasksList, serverTasks, started,
                   rendered>>

\* loginBtn.onclick after `await response.json()` settles (lines 70-73, 77)
LoginBody(i, body) ==
    /\ i \in 1..Len(net)
    /\ net[i].kind = "login"
    /\ net[i].phase = "parsing"
    /\ IF body.k = "notjson"
       THEN /\ authMsg' = MsgNetwork
            /\ net' = RemoveAt(net, i)
            /\ UNCHANGED <<token, storage, authHidden, tasksHidden>>
       ELSE /\ token' = body.tok
            /\ storage' = Str(ToString(token'))
            /\ ShowTasks(token', RemoveAt(net, i))
            /\ UNCHANGED authMsg
    /\ ev' = IF body.k = "notjson" THEN "LoginBodyThrow" ELSE "LoginBody"
    /\ UNCHANGED <<loaded, taskTitle, tasksList, serverTasks, started, rendered>>

\* logoutBtn.onclick (line 80)
LogoutClick ==
    /\ loaded
    /\ ShowAuth
    /\ ev' = "LogoutClick"
    /\ UNCHANGED <<loaded, authMsg, taskTitle, tasksList, net, serverTasks,
                   started, rendered>>

(***************************************************************************)
(* Tasks (lines 83-122)                                                    *)
(***************************************************************************)
\* line 95 without the completion marker
ItemTextTitleOnly(task) == task.title

\* li.textContent of line 95
ItemText(task) == task.title \o (IF task.completed THEN DoneMarker ELSE <<>>)

\* tasks.forEach of lines 93-97 on the list so far: a null element throws
\* when its title is read, which ends the loop with what was appended
RECURSIVE ForEachAppend(_, _)
ForEachAppend(list, items) ==
    IF items = <<>> THEN list
    ELSE IF Head(items).nul THEN list
    ELSE ForEachAppend(Append(list, ItemText(Head(items))), Tail(items))

\* lines 93-97 without line 92: the items are added to those shown
RenderKeepsOld(body) ==
    IF body.k = "array" THEN ForEachAppend(tasksList, body.items) ELSE tasksList

\* lines 92-97 for a parsed body: innerHTML = '' and then forEach, which
\* throws at once when the body is no array
Render(body) ==
    IF body.k = "array" THEN ForEachAppend(<<>>, body.items) ELSE <<>>

\* lines 89-91 without the 401 test of line 89
LoadTasksResponseNo401(i, a) ==
    /\ i \in 1..Len(net)
    /\ net[i].kind = "list"
    /\ net[i].phase \in {"sent", "served"}
    /\ a \in ListAnswers(net[i])
    /\ IF a[1] = 0
       THEN net' = RemoveAt(net, i)
       ELSE net' = ReplaceAt(net, i, [net[i] EXCEPT !.phase = "parsing",
                                                    !.body = a[2]])
    /\ ev' = IF a[1] # 401 THEN "LoadTasksResponse"
             ELSE IF Truthy(token) /\ net[i].bearer # ToString(token)
             THEN "LoadTasksResponse401Stale"
             ELSE "LoadTasksResponse401"
    /\ UNCHANGED <<loaded, token, storage, authHidden, tasksHidden, authMsg,
                   taskTitle, tasksList, serverTasks, started, rendered>>

\* lines 89-91 with the 401 acted on only when the request carried the
\* token that is current when the answer arrives
LoadTasksResponseChecksToken(i, a) ==
    /\ i \in 1..Len(net)
    /\ net[i].kind = "list"
    /\ net[i].phase \in {"sent", "served"}
    /\ a \in ListAnswers(net[i])
    /\ IF a[1] = 0
       THEN /\ net' = RemoveAt(net, i)
            /\ UNCHANGED <<token, storage, authHidden, tasksHidden>>
       ELSE IF a[1] = 401
       THEN /\ net' = RemoveAt(net, i)
            /\ IF net[i].bearer = ToString(token)
               THEN ShowAuth
               ELSE UNCHANGED <<token, storage, authHidden, tasksHidden>>
       ELSE /\ net' = ReplaceAt(net, i, [net[i] EXCEPT !.phase = "parsing",
                                                       !.body = a[2]])
            /\ UNCHANGED <<token, storage, authHidden, tasksHidden>>
    /\ ev' = IF a[1] # 401 THEN "LoadTasksResponse"
             ELSE IF Truthy(token) /\ net[i].bearer # ToString(token)
             THEN "LoadTasksResponse401Stale"
             ELSE "LoadTasksResponse401"
    /\ UNCHANGED <<loaded, authMsg, taskTitle, tasksList, serverTasks, started,
                   rendered>>

\* loadTasks after `await fetch` settles with answer a (lines 89-91, 98)
LoadTasksResponse(i, a) ==
    /\ i \in 1..Len(net)
    /\ net[i].kind = "list"
    /\ net[i].phase \in {"sent", "served"}
    /\ a \in ListAnswers(net[i])
    /\ IF a[1] = 0
       THEN /\ net' = RemoveAt(net, i)
            /\ UNCHANGED <<token, storage, authHidden, tasksHidden>>
       ELSE IF a[1] = 401
       THEN /\ ShowAuth
            /\ net' = RemoveAt(net, i)
       ELSE /\ net' = ReplaceAt(net, i, [net[i] EXCEPT !.phase = "parsing",
                                                       !.body = a[2]])
            /\ UNCHANGED <<token, storage, authHidden, tasksHidden>>
    /\ ev' = IF a[1] # 401 THEN "LoadTasksResponse"
             ELSE IF Truthy(token) /\ net[i].bearer # ToString(token)
             THEN "LoadTasksResponse401Stale"
             ELSE "LoadTasksResponse401"
    /\ UNCHANGED <<loaded, authMsg, taskTitle, tasksList, serverTasks, started,
                   rendered>>

\* lines 91-98 with the response dropped unless the request carried the
\* token that is current when its body has been read
LoadTasksBodyCurrentOnly(i) ==
    /\ i \in 1..Len(net)
    /\ net[i].kind = "list"
    /\ net[i].phase = "parsing"
    /\ tasksList' = IF net[i].body.k = "notjson" \/ net[i].bearer # ToString(token)
                    THEN tasksList
                    ELSE Render(net[i].body)
    /\ rendered' = IF net[i].body.k = "notjson" \/ net[i].bearer # ToString(token)
                   THEN rendered
                   ELSE net[i]
    /\ net' = RemoveAt(net, i)
    /\ ev' = "LoadTasksBody"
    /\ UNCHANGED <<loaded, token, storage, authHidden, tasksHidden, authMsg,
                   taskTitle, serverTasks, started>>

\* loadTasks after `await response.json()` settles (lines 91-98)
LoadTasksBody(i) ==
    /\ i \in 1..Len(net)
    /\ net[i].kind = "list"
    /\ net[i].phase = "parsing"
    /\ tasksList' = IF net[i].body.k = "notjson" THEN tasksList
                    ELSE Render(net[i].body)
    /\ rendered' = IF net[i].body.k = "notjson" THEN rendered ELSE net[i]
    /\ net' = RemoveAt(net, i)
    /\ ev' = "LoadTasksBody"
    /\ UNCHANGED <<loaded, token, storage, authHidden, tasksHidden, authMsg,
                   taskTitle, serverTasks, started>>

\* addTaskBtn.onclick up to `await fetch` (lines 101-114)
AddTaskClick ==
    /\ loaded
    /\ IF ~Truthy(token) \/ taskTitle = <<>>
       THEN UNCHANGED <<net, started>>
       ELSE /\ started < MaxStarted
            /\ started' = started + 1
            /\ net' = Append(net, Request("create", ToString(token), taskTitle))
    /\ ev' = "AddTaskClick"
    /\ UNCHANGED <<loaded, token, storage, authHidden, tasksHidden, authMsg,
                   taskTitle, tasksList, serverTasks, rendered>>

\* lines 115-121 with a 401 treated as loadTasks treats it (line 89)
AddTaskResponse401ShowsAuth(i, status) ==
    /\ i \in 1..Len(net)
    /\ net[i].kind = "create"
    /\ net[i].phase \in {"sent", "served"}
    /\ status \in CreateStatuses(net[i])
    /\ IF status = 201
       THEN /\ taskTitle' = <<>>
            /\ net' = LoadTasks(token, RemoveAt(net, i))
            /\ UNCHANGED <<token, storage, authHidden, tasksHidden>>
       ELSE IF status = 401
       THEN /\ ShowAuth
            /\ net' = RemoveAt(net, i)
            /\ UNCHANGED taskTitle
       ELSE /\ net' = RemoveAt(net, i)
            /\ UNCHANGED <<taskTitle, token, storage, authHidden, tasksHidden>>
    /\ ev' = IF status = 201 THEN "AddTaskResponse201" ELSE "AddTaskResponse"
    /\ UNCHANGED <<loaded, authMsg, tasksList, serverTasks, started, rendered>>

\* lines 115-121 without the loadTasks() of line 117
AddTaskResponseNoRefresh(i, status) ==
    /\ i \in 1..Len(net)
    /\ net[i].kind = "create"
    /\ net[i].phase \in {"sent", "served"}
    /\ status \in CreateStatuses(net[i])
    /\ taskTitle' = IF status = 201 THEN <<>> ELSE taskTitle
    /\ net' = RemoveAt(net, i)
    /\ ev' = IF status = 201 THEN "AddTaskResponse201" ELSE "AddTaskResponse"
    /\ UNCHANGED <<loaded, token, storage, authHidden, tasksHidden, authMsg,
                   tasksList, serverTasks, started, rendered>>

\* addTaskBtn.onclick after `await fetch` settles with status (lines 115-121)
AddTaskResponse(i, status) ==
    /\ i \in 1..Len(net)
    /\ net[i].kind = "create"
    /\ net[i].phase \in {"sent", "served"}
    /\ status \in CreateStatuses(net[i])
    /\ IF status = 201
       THEN /\ taskTitle' = <<>>
            /\ net' = LoadTasks(token, RemoveAt(net, i))
       ELSE /\ net' = RemoveAt(net, i)
            /\ UNCHANGED taskTitle
    /\ ev' = IF status = 201 THEN "AddTaskResponse201" ELSE "AddTaskResponse"
    /\ UNCHANGED <<loaded, token, storage, authHidden, tasksHidden, authMsg,
                   tasksList, serverTasks, started, rendered>>

(***************************************************************************)
(* Specifications                                                          *)
(***************************************************************************)
\* the page before the script runs: index.html decides the panels' classes
Init ==
    /\ loaded = FALSE
    /\ token = JSUndefined
    /\ storage \in StoredAtLoad
    /\ authHidden \in BOOLEAN
    /\ tasksHidden \in BOOLEAN
    /\ authMsg = MsgNone
    /\ taskTitle = <<>>
    /\ tasksList = <<>>
    /\ net = <<>>
    /\ serverTasks = InitialServerTasks
    /\ started = 0
    /\ rendered = NoRequest
    /\ ev = "none"

\* positions of net
Slots == 1..Len(net)

Next ==
    \/ PageLoad
    \/ \E t \in Titles : TypeTitle(t)
    \/ RegisterClick
    \/ LoginClick
    \/ LogoutClick
    \/ AddTaskClick
    \/ \E i \in Slots : ServeList(i)
    \/ \E i \in Slots : ServeCreate(i)
    \/ \E i \in Slots : \E st \in RegisterStatuses : RegisterResponse(i, st)
    \/ \E i \in Slots : \E b \in RegisterBodies : RegisterBody(i, b)
    \/ \E i \in Slots : \E st \in LoginStatuses : LoginResponse(i, st)
    \/ \E i \in Slots : \E b \in LoginBodies : LoginBody(i, b)
    \/ \E i \in Slots : \E a \in ListAnswers(net[i]) : LoadTasksResponse(i, a)
    \/ \E i \in Slots : LoadTasksBody(i)
    \/ \E i \in Slots : \E st \in CreateStatuses(net[i]) : AddTaskResponse(i, st)

Spec == Init /\ [][Next]_vars

\* The services keep to their contract and the session is not ended: every
\* login succeeds with a token, every GET is answered 200 with the list,
\* every POST 201, nothing fails and nobody logs out.
NextGood ==
    \/ PageLoad
    \/ \E t \in Titles : TypeTitle(t)
    \/ LoginClick
    \/ AddTaskClick
    \/ \E i \in Slots : ServeList(i)
    \/ \E i \in Slots : ServeCreate(i)
    \/ \E i \in Slots : LoginResponse(i, 200)
    \/ \E i \in Slots : \E b \in GoodLoginBodies : LoginBody(i, b)
    \/ \E i \in Slots : LoadTasksResponse(i, <<200, net[i].body>>)
    \/ \E i \in Slots : LoadTasksBody(i)
    \/ \E i \in Slots : AddTaskResponse(i, 201)

SpecGood == Init /\ [][NextGood]_vars

\* Every 2xx login response carries a non-empty string access_token; apart
\* from that everything can happen: logouts, refusals, failures, answers
\* outside the contract.
NextTokenLogins ==
    \/ PageLoad
    \/ \E t \in Titles : TypeTitle(t)
    \/ RegisterClick
    \/ LoginClick
    \/ LogoutClick
    \/ AddTaskClick
    \/ \E i \in Slots : ServeList(i)
    \/ \E i \in Slots : ServeCreate(i)
    \/ \E i \in Slots : \E st \in RegisterStatuses : RegisterResponse(i, st)
    \/ \E i \in Slots : \E b \in RegisterBodies : RegisterBody(i, b)
    \/ \E i \in Slots : \E st \in LoginStatuses : LoginResponse(i, st)
    \/ \E i \in Slots : \E b \in GoodLoginBodies : LoginBody(i, b)
    \/ \E i \in Slots : \E a \in ListAnswers(net[i]) : LoadTasksResponse(i, a)
    \/ \E i \in Slots : LoadTasksBody(i)
    \/ \E i \in Slots : \E st \in CreateStatuses(net[i]) : AddTaskResponse(i, st)

SpecTokenLogins == Init /\ [][NextTokenLogins]_vars

(***************************************************************************)
(* Vocabulary of the properties                                            *)
(***************************************************************************)
TokenPresent == Truthy(token)
TasksVisible == ~tasksHidden
AuthVisible == ~authHidden

View ==
    IF authHidden /\ ~tasksHidden THEN "TasksView"
    ELSE IF ~authHidden /\ tasksHidden THEN "AuthView"
    ELSE "none"

ListRequest(bearer) == Request("list", bearer, <<>>)

InFlight(kind) == {i \in 1..Len(net) : net[i].kind = kind}

\* String.prototype.trim on a sequence of characters
RECURSIVE TrimLeft(_)
TrimLeft(str) ==
    IF str # <<>> /\ Head(str) = " " THEN TrimLeft(Tail(str)) ELSE str

RECURSIVE TrimRight(_)
TrimRight(str) ==
    IF str # <<>> /\ str[Len(str)] = " "
    THEN TrimRight(SubSeq(str, 1, Len(str) - 1)) ELSE str

Trim(str) == TrimRight(TrimLeft(str))

(***************************************************************************)
(* C1.  After page initialisation the tasks panel is visible if and only   *)
(* if the in-memory token is present, and whenever the token is absent the *)
(* auth panel is visible and localStorage holds no token entry - for every *)
(* 2xx login body, also one whose access_token is missing or empty.        *)
(* The code contradicts it: see C1_PanelsFollowToken's error trace.        *)
(***************************************************************************)
C1_PanelsFollowToken ==
    loaded =>
        /\ TasksVisible <=> TokenPresent
        /\ ~TokenPresent => (AuthVisible /\ storage = JSNull)

(***************************************************************************)
(* C2.  After initialisation the view goes from AuthView to TasksView only *)
(* in the step that handles the body of a 2xx login response, and from     *)
(* TasksView to AuthView only in a Logout click or in the step that        *)
(* handles a 401 answer to a LoadTasks request; no other step changes it.  *)
(***************************************************************************)
C2_ViewTransitions ==
    [][loaded =>
        /\ View' # View =>
              \/ View = "AuthView" /\ View' = "TasksView"
              \/ View = "TasksView" /\ View' = "AuthView"
        /\ (View = "AuthView" /\ View' = "TasksView") =>
              \E i \in Slots : \E b \in LoginBodies \ {NotJson} : LoginBody(i, b)
        /\ (View = "TasksView" /\ View' = "AuthView") =>
              \/ LogoutClick
              \/ \E i \in Slots : \E a \in ListAnswers(net[i]) :
                     a[1] = 401 /\ LoadTasksResponse(i, a)]_vars

\* the login of a page that started in AuthView has switched to TasksView
C2_Witness ==
    /\ ev = "LoginBody"
    /\ View = "TasksView"
    /\ token = Str("tok2")
    /\ net = <<ListRequest("tok2")>>
    /\ rendered = NoRequest

(***************************************************************************)
(* C3.  A Logout click, from any state, leaves in the same step the token  *)
(* absent in memory, no token entry in localStorage and the view AuthView, *)
(* and issues no request.                                                  *)
(***************************************************************************)
C3_Logout ==
    [][LogoutClick =>
        /\ token' = JSNull
        /\ storage' = JSNull
        /\ View' = "AuthView"
        /\ net' = net]_vars

\* a Logout click while a session's requests are in flight
C3_Witness ==
    /\ ev = "LogoutClick"
    /\ token = JSNull /\ storage = JSNull /\ View = "AuthView"
    /\ Len(net) >= 2
    /\ InFlight("list") # {}

(***************************************************************************)
(* C4.  Handling a 401 answer to a LoadTasks request gives the state a     *)
(* Logout click gives from the same state: token absent in memory and in   *)
(* localStorage, view AuthView, rendered list, title input and auth        *)
(* message unchanged, no request issued - whatever the token is then.      *)
(***************************************************************************)
C4_Unauthorized ==
    [][\A i \in Slots : \A a \in ListAnswers(net[i]) :
        (a[1] = 401 /\ LoadTasksResponse(i, a)) =>
            /\ token' = JSNull
            /\ storage' = JSNull
            /\ View' = "AuthView"
            /\ tasksList' = tasksList
            /\ taskTitle' = taskTitle
            /\ authMsg' = authMsg
            /\ net' = RemoveAt(net, i)]_vars

\* a 401 handled while a list is rendered
C4_Witness ==
    /\ ev = "LoadTasksResponse401"
    /\ token = JSNull /\ storage = JSNull /\ View = "AuthView"
    /\ tasksList # <<>>

C6_AddTaskGuard ==
    [][AddTaskClick =>
        /\ net' # net => (TokenPresent /\ Trim(taskTitle) # <<>>)
        /\ (~TokenPresent \/ Trim(taskTitle) = <<>>) =>
              UNCHANGED <<net, tasksList, taskTitle, token, storage,
                          authHidden, tasksHidden>>]_vars

(***************************************************************************)
(* Vocabulary of the list properties                                       *)
(***************************************************************************)
\* a JSON array all of whose elements are task objects
IsTaskArray(body) ==
    /\ body.k = "array"
    /\ \A k \in 1..Len(body.items) : ~body.items[k].nul

\* one item per task, in order: the title, then the marker iff completed
Expected(items) ==
    [k \in 1..Len(items) |->
        IF items[k].completed THEN items[k].title \o DoneMarker
        ELSE items[k].title]

NoListInFlight == InFlight("list") = {}

\* every POST the service has stored has had its 201 handled
NoUnhandledCreate == \A i \in InFlight("create") : net[i].phase = "sent"

\* positions in serverTasks of the tasks added by this page
Created == (Len(InitialServerTasks) + 1)..Len(serverTasks)

(***************************************************************************)
(* C7.  When an AddTask POST is answered 201 the title input is cleared    *)
(* and a LoadTasks is issued; with the service storing the task and        *)
(* answering 200 with its full list, and the session not ended, once every *)
(* outstanding LoadTasks response has been delivered the rendered list     *)
(* contains the added task, in every interleaving with LoadTasks requests  *)
(* already in flight.                                                      *)
(* The last part as stated: refuted under SpecGood by a LoadTasks answered *)
(* before the POST was stored and delivered after the refresh.             *)
(***************************************************************************)
C7_AddedTaskShown ==
    (loaded /\ NoListInFlight /\ NoUnhandledCreate) =>
        \A k \in Created :
            /\ k <= Len(tasksList)
            /\ tasksList[k] = serverTasks[k].title

\* C7 as amended: the 201 step clears the title and issues the LoadTasks,
\* and once every outstanding LoadTasks response has been delivered the
\* list contains the added task provided the response rendered last was
\* produced by the service after it stored the task
C7_AddedTaskShownByFreshResponse ==
    /\ [][\A i \in Slots : AddTaskResponse(i, 201) =>
            /\ taskTitle' = <<>>
            /\ net' = Append(RemoveAt(net, i), ListRequest(ToString(token)))]_vars
    /\ []((/\ loaded /\ NoListInFlight /\ NoUnhandledCreate
           /\ rendered.kind = "list"
           /\ Len(rendered.body.items) = Len(serverTasks)) =>
              \A k \in Created :
                  /\ k <= Len(tasksList)
                  /\ tasksList[k] = serverTasks[k].title)

\* a task was added, its 201 handled, and the refresh's response rendered
C7_Witness ==
    /\ ev = "LoadTasksBody"
    /\ net = <<>>
    /\ Created # {}
    /\ Len(rendered.body.items) = Len(serverTasks)
    /\ tasksList = Expected(serverTasks)
    /\ taskTitle = <<>>

(***************************************************************************)
(* C8.  For every LoadTasks response that is not 401 and whose body is a   *)
(* JSON array of tasks, the rendered list after handling it has exactly    *)
(* one item per task of the response, in the response's order, each the    *)
(* task's title followed by the completion marker exactly when completed   *)
(* is true; nothing of the list rendered before survives.                  *)
(***************************************************************************)
C8_RenderReplaces ==
    [][\A i \in Slots :
        (IsTaskArray(net[i].body) /\ LoadTasksBody(i)) =>
            tasksList' = Expected(net[i].body.items)]_vars

\* a two-task response, the first task completed, has been rendered
C8_Witness ==
    /\ ev = "LoadTasksBody"
    /\ rendered.body = ArrayBody(<<Task(<<"a">>, TRUE), Task(<<"a">>, FALSE)>>)
    /\ tasksList = <<<<"a">> \o DoneMarker, <<"a">>>>

(***************************************************************************)
(* C9.  Whenever handling a LoadTasks request or response throws (network  *)
(* failure, body that is not JSON, JSON body that is not an array, array   *)
(* with an element that is not a task object), the rendered list after the *)
(* handler is the list before it, and token and view are unchanged.        *)
(* The code contradicts it: line 92 empties the list before line 93 throws.*)
(***************************************************************************)
C9_ThrowKeepsList ==
    [][/\ \A i \in Slots :
            (~IsTaskArray(net[i].body) /\ LoadTasksBody(i)) =>
                /\ tasksList' = tasksList
                /\ token' = token
                /\ View' = View
       /\ \A i \in Slots :
            LoadTasksResponse(i, <<0, NoBody>>) =>
                /\ tasksList' = tasksList
                /\ token' = token
                /\ View' = View]_vars

(***************************************************************************)
(* C10.  When several LoadTasks requests are in flight at once and are     *)
(* answered with task arrays, the rendered list equals the rendering of    *)
(* the response handled last, whatever the order of issue; no rendered     *)
(* state mixes items of two responses.                                     *)
(***************************************************************************)
C10_LastResponseWins ==
    (rendered.kind = "list" /\ IsTaskArray(rendered.body)) =>
        tasksList = Expected(rendered.body.items)

\* two responses were being read at once; the one read first is rendered
\* while the other, issued earlier or later and with another list, waits
C10_Witness ==
    /\ ev = "LoadTasksBody"
    /\ IsTaskArray(rendered.body)
    /\ tasksList = Expected(rendered.body.items)
    /\ tasksList # <<>>
    /\ \E i \in InFlight("list") :
          /\ net[i].phase = "parsing"
          /\ IsTaskArray(net[i].body)
          /\ net[i].body # rendered.body

(***************************************************************************)
(* C11.  In every reachable state, for each of Register, Login and AddTask *)
(* at most one request started by that action is unanswered: a second      *)
(* click on a button whose earlier request is unanswered creates no second *)
(* concurrent request.                                                     *)
(* The code contradicts it: no handler looks at the requests in flight.    *)
(***************************************************************************)
C11_OneRequestPerAction ==
    \A kind \in {"register", "login", "create"} :
        \A i, j \in InFlight(kind) :
            (net[i].phase = "sent" /\ net[j].phase = "sent") => i = j

(***************************************************************************)
(* C12.  At page load the initial view is TasksView, with one LoadTasks    *)
(* issued, if persisted storage holds a token, and AuthView with no        *)
(* request issued otherwise; in the AuthView case the in-memory token is   *)
(* absent and storage holds no token entry.                                *)
(***************************************************************************)
C12_InitialView ==
    [][PageLoad =>
        IF storage.t = "string" /\ storage.s # ""
        THEN /\ View' = "TasksView"
             /\ net' = <<ListRequest(storage.s)>>
             /\ token' = storage
             /\ storage' = storage
        ELSE /\ View' = "AuthView"
             /\ net' = <<>>
             /\ token' = JSNull
             /\ storage' = JSNull]_vars

\* the page has just loaded with the stored token "tok1"
C12_Witness ==
    /\ ev = "PageLoad"
    /\ View = "TasksView"
    /\ token = Str("tok1") /\ storage = Str("tok1")
    /\ net = <<ListRequest("tok1")>>
    /\ started = 1

(***************************************************************************)
(* C13.  In every reachable state after initialisation exactly one of the  *)
(* two panels is visible: the auth panel is hidden if and only if the      *)
(* tasks panel is shown.                                                   *)
(***************************************************************************)
C13_OnePanel ==
    loaded => (authHidden <=> ~tasksHidden)

\* the page started on the auth panel, a login showed the tasks panel and a
\* logout brought the auth panel back
C13_Witness ==
    /\ ev = "LogoutClick"
    /\ ~authHidden /\ tasksHidden
    /\ started = 1
    /\ InFlight("login") = {}
    /\ \E i \in InFlight("list") : net[i].bearer = "tok2"

(***************************************************************************)
(* Vocabulary of the frame properties                                      *)
(***************************************************************************)
Kinds == {"register", "login", "list", "create"}

\* number of fetches of a kind that have not been handled to the end
Count(kind) == Cardinality(InFlight(kind))

\* the step issues no request
NoRequestIssued == \A kind \in Kinds : Count(kind)' <= Count(kind)

\* token, persisted token, panels and rendered list are as they were
SessionAndListUnchanged ==
    UNCHANGED <<token, storage, authHidden, tasksHidden, tasksList>>

(***************************************************************************)
(* C14.  A Register click and the handling of its outcome (201, any other  *)
(* status, network failure) change only the auth message: token, persisted *)
(* storage, view, rendered list and title input are unchanged, the click   *)
(* sends the one registration request and handling the outcome issues no   *)
(* request.                                                                *)
(***************************************************************************)
C14_RegisterFrame ==
    [][/\ RegisterClick =>
            /\ SessionAndListUnchanged
            /\ UNCHANGED <<taskTitle, authMsg>>
            /\ net' = Append(net, Request("register", "", <<>>))
       /\ \A i \in Slots : \A st \in RegisterStatuses :
            RegisterResponse(i, st) =>
                /\ SessionAndListUnchanged
                /\ UNCHANGED taskTitle
                /\ NoRequestIssued
                /\ st = 201 => authMsg' = MsgRegistered
                /\ st = 0 => authMsg' = MsgNetwork
       /\ \A i \in Slots : \A b \in RegisterBodies :
            RegisterBody(i, b) =>
                /\ SessionAndListUnchanged
                /\ UNCHANGED taskTitle
                /\ NoRequestIssued
                /\ authMsg' \in {MsgDetail, MsgNetwork}]_vars

\* a registration sent from the auth panel is answered 201 after a login
\* has opened a session: the message is set under the tasks panel
C14_Witness ==
    /\ ev = "RegisterResponse"
    /\ authMsg = MsgRegistered
    /\ View = "TasksView"
    /\ token = Str("tok2") /\ storage = Str("tok2")
    /\ net = <<ListRequest("tok2")>>

(***************************************************************************)
(* C15.  A Login that ends in a non-2xx response or a network failure sets *)
(* a failure message and leaves token, persisted storage, view and         *)
(* rendered list as they were; the login request is never sent again: a    *)
(* click sends one POST and nothing else sends one.                        *)
(***************************************************************************)
C15_LoginFailure ==
    [][/\ \A i \in Slots : \A st \in LoginStatuses :
            (st \notin 200..299 /\ LoginResponse(i, st)) =>
                /\ authMsg' = (IF st = 0 THEN MsgNetwork ELSE MsgLoginFailed)
                /\ SessionAndListUnchanged
                /\ net' = RemoveAt(net, i)
       /\ LoginClick => Count("login")' = Count("login") + 1
       /\ Count("login")' > Count("login") => LoginClick]_vars

\* of two logins sent from the auth panel the first opened a session and
\* the second was refused: the message is set, the session stays
C15_Witness ==
    /\ ev = "LoginResponse"
    /\ authMsg = MsgLoginFailed
    /\ token = Str("tok2") /\ storage = Str("tok2")
    /\ View = "TasksView"
    /\ InFlight("login") = {}
    /\ started = 2

(***************************************************************************)
(* C16.  An AddTask POST answered with a status other than 201, 401        *)
(* included, or failing with a thrown error leaves token, persisted        *)
(* storage, view, rendered list, title input and auth message unchanged    *)
(* and issues no LoadTasks: no AddTask outcome ends the session.           *)
(***************************************************************************)
C16_AddTaskRefused ==
    [][\A i \in Slots : \A st \in CreateStatuses(net[i]) :
        (st # 201 /\ AddTaskResponse(i, st)) =>
            /\ SessionAndListUnchanged
            /\ UNCHANGED <<taskTitle, authMsg>>
            /\ net' = RemoveAt(net, i)]_vars

\* a POST sent during a session with a list on display has been refused
C16_Witness ==
    /\ ev = "AddTaskResponse"
    /\ token = Str("tok1") /\ storage = Str("tok1")
    /\ View = "TasksView"
    /\ tasksList # <<>>
    /\ taskTitle = <<"a">>
    /\ net = <<>>

(***************************************************************************)
(* C17.  LoadTasks invoked while the token is absent sends no request and  *)
(* changes nothing; invoked while a token is present it sends exactly one  *)
(* GET whose Authorization header carries the token value current at the   *)
(* moment of invocation.  Hence every request to the Tasks service carries *)
(* a present token.                                                        *)
(* loadTasks is invoked by showTasks (page load with a stored token, login *)
(* body read) and by the handling of a 201 answer to AddTask.              *)
(***************************************************************************)
C17_LoadTasksGuard ==
    /\ [][/\ \A i \in Slots :
               AddTaskResponse(i, 201) =>
                   /\ SessionAndListUnchanged
                   /\ net' = IF token.t = "string" /\ token.s # ""
                             THEN Append(RemoveAt(net, i), ListRequest(token.s))
                             ELSE RemoveAt(net, i)
          /\ \A i \in Slots : \A b \in LoginBodies :
               (b.k = "object" /\ LoginBody(i, b)) =>
                   /\ tasksList' = tasksList
                   /\ net' = IF b.tok.t = "string" /\ b.tok.s # ""
                             THEN Append(RemoveAt(net, i), ListRequest(b.tok.s))
                             ELSE RemoveAt(net, i)
          /\ PageLoad =>
               /\ tasksList' = tasksList
               /\ net' = IF storage.t = "string" /\ storage.s # ""
                         THEN Append(net, ListRequest(storage.s))
                         ELSE net
          /\ Count("list")' > Count("list") =>
               /\ Count("list")' = Count("list") + 1
               /\ token'.t = "string" /\ token'.s # ""
               /\ net'[Len(net')] = ListRequest(token'.s)]_vars
    /\ [](\A i \in InFlight("list") \cup InFlight("create") :
             net[i].bearer \in TokenStrings)

\* the 201 of a POST arrives after a logout: the task is stored, the title
\* cleared, and the loadTasks() of line 117 has sent nothing
C17_Witness ==
    /\ ev = "AddTaskResponse201"
    /\ token = JSNull /\ storage = JSNull
    /\ View = "AuthView"
    /\ Created # {}
    /\ taskTitle = <<>>
    /\ net = <<>>

(***************************************************************************)
(* C18.  Given that every 2xx login response carries a non-empty string    *)
(* access_token, in every state after initialisation the in-memory token   *)
(* and the persisted token agree: both absent, or both present with the    *)
(* same string, for every sequence of logins, logouts and 401 responses.   *)
(* (Every state of the model lies between two handler runs.)               *)
(***************************************************************************)
C18_TokenAgrees ==
    loaded =>
        \/ token = JSNull /\ storage = JSNull
        \/ token.t = "string" /\ token.s # "" /\ storage = token

\* a session with "tok1" had its list rendered, a login replaced the token
\* by "tok2", and a logout has ended the session
C18_Witness ==
    /\ ev = "LogoutClick"
    /\ token = JSNull /\ storage = JSNull
    /\ started = 2
    /\ rendered.bearer = "tok1"
    /\ \E i \in InFlight("list") : net[i].bearer = "tok2"
    /\ \A i \in InFlight("list") : net[i].bearer = "tok2"

(***************************************************************************)
(* C19.  A 401 answer to a LoadTasks request sent with token t1 clears the *)
(* session also when it arrives while another token t2 is current (the     *)
(* user has logged in again meanwhile): the handler does not compare the   *)
(* request's token with the current one.  The step is no Logout click and  *)
(* no answer to a request carrying t2; the requests carrying t2 stay in    *)
(* flight.                                                                 *)
(***************************************************************************)
C19_Stale401EndsSession ==
    [][\A i \in Slots : \A a \in ListAnswers(net[i]) :
        (/\ a[1] = 401
         /\ token.t = "string" /\ token.s # ""
         /\ net[i].bearer # token.s
         /\ LoadTasksResponse(i, a)) =>
            /\ token' = JSNull
            /\ storage' = JSNull
            /\ View' = "AuthView"
            /\ net' = RemoveAt(net, i)]_vars

\* the GET sent with "tok1" was answered 401 while "tok2" was current: the
\* session is gone, the GET sent with "tok2" is still unanswered
C19_Witness ==
    /\ ev = "LoadTasksResponse401Stale"
    /\ token = JSNull /\ storage = JSNull
    /\ View = "AuthView"
    /\ net = <<ListRequest("tok2")>>

(***************************************************************************)
(* C20.  Ending a session, by a Logout click or by a 401 on LoadTasks,     *)
(* leaves the rendered list unchanged, and a LoadTasks response that is    *)
(* not 401 is rendered when it arrives also if its request belongs to an   *)
(* ended session (it carried a token that is no longer current); so the    *)
(* list shown under token t2 can be the tasks fetched with an earlier      *)
(* token t1.                                                               *)
(***************************************************************************)
C20_EndedSessionList ==
    [][/\ LogoutClick => tasksList' = tasksList
       /\ \A i \in Slots : \A a \in ListAnswers(net[i]) :
            (a[1] = 401 /\ LoadTasksResponse(i, a)) => tasksList' = tasksList
       /\ \A i \in Slots :
            (/\ IsTaskArray(net[i].body)
             /\ net[i].bearer # ToString(token)
             /\ LoadTasksBody(i)) =>
                /\ tasksList' = Expected(net[i].body.items)
                /\ UNCHANGED <<token, storage, authHidden, tasksHidden>>]_vars

\* under the session of "tok2", whose own GET is unanswered, the response
\* to the GET sent with "tok1" has been rendered
C20_Witness ==
    /\ ev = "LoadTasksBody"
    /\ token = Str("tok2") /\ storage = Str("tok2")
    /\ View = "TasksView"
    /\ rendered.bearer = "tok1"
    /\ IsTaskArray(rendered.body)
    /\ tasksList = Expected(rendered.body.items)
    /\ tasksList # <<>>
    /\ net = <<ListRequest("tok2")>>

====
